---- MODULE Spec2Model ----
(***************************************************************************)
(* fountjs: the Tokenize -> Parser pipeline of the Fountain screenplay     *)
(* parser, as a state machine.                                             *)
(*                                                                         *)
(* A JavaScript string is a sequence of one-character strings, so that     *)
(* trim, slice, startsWith, endsWith, split and the regular expressions    *)
(* are computed as the code computes them.  `null`/`undefined` values of   *)
(* string type are an empty sequence of strings (None) against a           *)
(* one-element sequence (Some(s)).                                         *)
(***************************************************************************)
EXTENDS Naturals, Integers, Sequences, FiniteSets, TLC

VARIABLES
    lines,              \* Tokenize: fountainText.split("\n")
    i,                  \* Tokenize: the main loop's cursor (0-based)
    prevTokenType,      \* Tokenize: "null" or a TokenType
    tokens,             \* Tokenize: the token list
    errors,             \* Tokenize: the ParseError list
    metadata,           \* Tokenize: the metadata record, a set of key/value pairs
    text,               \* parseCharacter: the text still to be stripped
    extensions,         \* parseCharacter: the extensions found so far
    isDual,             \* parseCharacter: the line ended with ^
    buffer,             \* Tokenize, multi-line parenthetical: the accumulated text
    usedlines,          \* Tokenize, multi-line parenthetical: lines consumed
    j,                  \* Tokenize, multi-line parenthetical: look-ahead cursor (0-based)
    pidx,               \* Parser: the loop index over tokens (0-based)
    data,               \* Parser: the top-level sequence of the result
    currentScene,       \* Parser: 0 (null) or the index in data of the current SceneBlock
    lastCharacter,      \* Parser: None or Some(name)
    lastParenthetical,  \* Parser: None or Some(text)
    pc                  \* "tokenize" | "strip" | "scan" | "parse" | "done"

vars == <<lines, i, prevTokenType, tokens, errors, metadata, text, extensions,
          isDual, buffer, usedlines, j, pidx, data, currentScene,
          lastCharacter, lastParenthetical, pc>>

tokVars == <<lines, i, prevTokenType, tokens, errors, metadata>>
stripVars == <<text, extensions, isDual>>
scanVars == <<buffer, usedlines, j>>
parserVars == <<pidx, data, currentScene, lastCharacter, lastParenthetical>>

(***************************************************************************)
(* Strings                                                                 *)
(***************************************************************************)
None == <<>>
Some(s) == <<s>>

LowerLetters ==
    <<"a","b","c","d","e","f","g","h","i","j","k","l","m",
      "n","o","p","q","r","s","t","u","v","w","x","y","z">>
UpperLetters ==
    <<"A","B","C","D","E","F","G","H","I","J","K","L","M",
      "N","O","P","Q","R","S","T","U","V","W","X","Y","Z">>

IsSpace(c) == c = " "

RECURSIVE TrimStart(_)
TrimStart(s) ==
    IF Len(s) > 0 /\ IsSpace(s[1]) THEN TrimStart(Tail(s)) ELSE s

RECURSIVE TrimEnd(_)
TrimEnd(s) ==
    IF Len(s) > 0 /\ IsSpace(s[Len(s)]) THEN TrimEnd(SubSeq(s, 1, Len(s) - 1)) ELSE s

Trim(s) == TrimEnd(TrimStart(s))

StartsWith(s, p) == Len(s) >= Len(p) /\ SubSeq(s, 1, Len(p)) = p

EndsWith(s, p) == Len(s) >= Len(p) /\ SubSeq(s, Len(s) - Len(p) + 1, Len(s)) = p

\* s.slice(1)
SliceFrom1(s) == SubSeq(s, 2, Len(s))

\* s.slice(0, -1)
SliceDropLast(s) == SubSeq(s, 1, Len(s) - 1)

\* s.slice(1, -1)
SliceInner(s) == SubSeq(s, 2, Len(s) - 1)

UpperChar(c) ==
    IF \E k \in 1..26 : LowerLetters[k] = c
    THEN UpperLetters[CHOOSE k \in 1..26 : LowerLetters[k] = c]
    ELSE c

RECURSIVE ToUpperCase(_)
ToUpperCase(s) ==
    IF Len(s) = 0 THEN <<>> ELSE <<UpperChar(s[1])>> \o ToUpperCase(Tail(s))

\* s.split(sep): the segments between the occurrences of the character sep
RECURSIVE SplitAcc(_, _, _)
SplitAcc(s, sep, cur) ==
    IF Len(s) = 0 THEN <<cur>>
    ELSE IF s[1] = sep THEN <<cur>> \o SplitAcc(Tail(s), sep, <<>>)
    ELSE SplitAcc(Tail(s), sep, Append(cur, s[1]))

Split(s, sep) == SplitAcc(s, sep, <<>>)

\* s.replace(/\s+/g, " ")
RECURSIVE CollapseSpaces(_)
CollapseSpaces(s) ==
    IF Len(s) = 0 THEN <<>>
    ELSE IF IsSpace(s[1])
         THEN <<" ">> \o CollapseSpaces(TrimStart(s))
         ELSE <<s[1]>> \o CollapseSpaces(Tail(s))

\* s.replaceAll(/^[>]+|[<]+$/g, "")
RECURSIVE StripLeadingGt(_)
StripLeadingGt(s) ==
    IF Len(s) > 0 /\ s[1] = ">" THEN StripLeadingGt(Tail(s)) ELSE s

RECURSIVE StripTrailingLt(_)
StripTrailingLt(s) ==
    IF Len(s) > 0 /\ s[Len(s)] = "<" THEN StripTrailingLt(SliceDropLast(s)) ELSE s

StripCenterMarks(s) == StripTrailingLt(StripLeadingGt(s))

(***************************************************************************)
(* Tokens, errors, nodes                                                   *)
(***************************************************************************)
\* A token; a field the code leaves out is FALSE (forced, centered, isDual)
\* or the empty list (extensions).
Token(type, value) ==
    [type |-> type, value |-> value, forced |-> FALSE, centered |-> FALSE,
     extensions |-> <<>>, isDual |-> FALSE]

ForcedToken(type, value) == [Token(type, value) EXCEPT !.forced = TRUE]

CharacterToken(name, exts, dual) ==
    [Token("character", name) EXCEPT !.extensions = exts, !.isDual = dual]

CenteredToken(value) == [Token("action", value) EXCEPT !.centered = TRUE]

MAX_LINE == 3

UnclosedMessage == "Parenthetical was not closed within 3 lines."

ParseError(line, context) ==
    [type |-> "UnclosedParenthetical", line |-> line,
     message |-> UnclosedMessage, context |-> context]

(***************************************************************************)
(* The line predicates of the tokenizer                                    *)
(***************************************************************************)
sceneTags ==
    <<<<"I","N","T">>,
      <<"E","X","T">>,
      <<"E","S","T">>,
      <<"I","N","T",".","/","E","X","T">>,
      <<"I","N","T","/","E","X","T">>,
      <<"I","/","E">>,
      <<"E","/","I">>,
      <<"E",".","/","I",".">>,
      <<"I",".","/","E",".">>,
      <<"I","N","T",".","/","E","X","T",".">>,
      <<"E","X","T",".","/","I","N","T",".">>>>

creditKeys ==
    <<<<"T","i","t","l","e",":">>,
      <<"C","r","e","d","i","t",":">>,
      <<"A","u","t","h","o","r",":">>,
      <<"D","r","a","f","t"," ","D","a","t","e",":">>,
      <<"S","o","u","r","c","e",":">>>>

startWithAny(line, prefixes) ==
    \E k \in DOMAIN prefixes : StartsWith(line, prefixes[k])

\* lines[k] is a line of the text (k is 0-based, as in the code)
HasLine(ls, k) == k >= 0 /\ k < Len(ls)

LineAt(ls, k) == ls[k + 1]

\* !x || x.trim() === ""   for x = lines[k], undefined when k is out of range
IsEmptyCtx(ls, k) == IF HasLine(ls, k) THEN Len(Trim(LineAt(ls, k))) = 0 ELSE TRUE

isScene(ls, k) ==
    /\ startWithAny(LineAt(ls, k), sceneTags)
    /\ IsEmptyCtx(ls, k - 1)
    /\ IsEmptyCtx(ls, k + 1)

isTransition(ls, k) ==
    /\ LineAt(ls, k) = ToUpperCase(LineAt(ls, k))
    /\ (EndsWith(LineAt(ls, k), <<":">>) \/ EndsWith(LineAt(ls, k), <<".">>))
    /\ IsEmptyCtx(ls, k - 1)
    /\ IsEmptyCtx(ls, k + 1)

isCentered(line) ==
    StartsWith(Trim(line), <<">">>) /\ EndsWith(Trim(line), <<"<">>)

isCredit(line) == startWithAny(line, creditKeys)

\* if (line.trim().length === 0) prevTokenType = null
BlankReset(line, p) == IF Len(Trim(line)) = 0 THEN "null" ELSE p

\* The if-chain of the loop body up to the call of parseCharacter: the
\* first test that holds decides the line.
HeadRule(ls, k) ==
    LET line == LineAt(ls, k) IN
    IF Len(line) = 0 THEN "empty"
    ELSE IF isCredit(line) THEN "credit"
    ELSE IF StartsWith(Trim(line), <<"!">>) THEN "forcedAction"
    ELSE IF StartsWith(Trim(line), <<">">>) /\ ~isCentered(line) THEN "forcedTransition"
    ELSE IF StartsWith(line, <<"@">>) THEN "forcedCharacter"
    ELSE IF StartsWith(Trim(line), <<".">>) THEN "forcedScene"
    ELSE IF isScene(ls, k) THEN "scene"
    ELSE IF isTransition(ls, k) THEN "transition"
    ELSE "parseCharacter"

(***************************************************************************)
(* parseCharacter                                                          *)
(***************************************************************************)
InExtensionClass(c) ==
    (\E k \in 1..26 : UpperLetters[k] = c) \/ c = "." \/ IsSpace(c)

\* The 1-based position of the last "(" of s, 0 if there is none.
LastOpen(s) ==
    IF \E k \in 1..Len(s) : s[k] = "("
    THEN CHOOSE k \in 1..Len(s) :
            s[k] = "(" /\ \A m \in (k + 1)..Len(s) : s[m] # "("
    ELSE 0

\* /\(([A-Z.\s]+)\)$/.exec(s) !== null: the class holds neither parenthesis,
\* so a match starts at the last "(" and runs to the ")" that ends s.
ExtensionMatches(s) ==
    /\ EndsWith(s, <<")">>)
    /\ LastOpen(s) > 0
    /\ LastOpen(s) + 1 <= Len(s) - 1
    /\ \A k \in (LastOpen(s) + 1)..(Len(s) - 1) : InExtensionClass(s[k])

\* match[1]
ExtensionInner(s) == SubSeq(s, LastOpen(s) + 1, Len(s) - 1)

\* text.slice(0, match.index).trim()
StripMatch(s) == Trim(SubSeq(s, 1, LastOpen(s) - 1))

\* name !== "" && name === name.toUpperCase()
IsCharacterName(name) == Len(name) > 0 /\ name = ToUpperCase(name)

(***************************************************************************)
(* Tokenize: the main loop.  One action per branch of the loop body; a     *)
(* branch that ends with `continue` (or falls off the end of the body)     *)
(* moves the cursor to the next line.                                      *)
(***************************************************************************)
AtLine == pc = "tokenize" /\ i < Len(lines)

line == LineAt(lines, i)

\* for (...; i++): the cursor after an iteration that ends at cursor c
NextCursor(c) == c + 1

\* if (!line) continue;
EmptyLine ==
    /\ AtLine
    /\ HeadRule(lines, i) = "empty"
    /\ i' = NextCursor(i)
    /\ UNCHANGED <<lines, prevTokenType, tokens, errors, metadata, pc>>
    /\ UNCHANGED <<stripVars, scanVars, parserVars>>

\* line.split(":")[1]: undefined (None) when the split has a single segment
SplitSecond(s) ==
    IF Len(Split(s, ":")) >= 2 THEN Some(Split(s, ":")[2]) ELSE None

\* value || null, value = line.split(":")[1]?.trim()
CreditValue(s) ==
    IF SplitSecond(s) = None \/ Len(Trim(SplitSecond(s)[1])) = 0
    THEN None
    ELSE Some(Trim(SplitSecond(s)[1]))

CreditKey(s) == Trim(Split(s, ":")[1])

\* metadata[key] = value
SetMetadata(md, key, value) ==
    {m \in md : m.key # key} \cup {[key |-> key, value |-> value]}

CreditLine ==
    /\ AtLine
    /\ HeadRule(lines, i) = "credit"
    /\ metadata' = IF Len(CreditKey(line)) > 0
                   THEN SetMetadata(metadata, CreditKey(line), CreditValue(line))
                   ELSE metadata
    /\ i' = NextCursor(i)
    /\ UNCHANGED <<lines, prevTokenType, tokens, errors, pc>>
    /\ UNCHANGED <<stripVars, scanVars, parserVars>>

\* value: line.slice(1).trim() in the four sigil branches
SigilValue(s) == Trim(SliceFrom1(s))

ForcedAction ==
    /\ AtLine
    /\ HeadRule(lines, i) = "forcedAction"
    /\ tokens' = Append(tokens, ForcedToken("action", SigilValue(line)))
    /\ prevTokenType' = "action"
    /\ i' = NextCursor(i)
    /\ UNCHANGED <<lines, errors, metadata, pc>>
    /\ UNCHANGED <<stripVars, scanVars, parserVars>>

\* prevTokenType is not assigned in this branch
ForcedTransition ==
    /\ AtLine
    /\ HeadRule(lines, i) = "forcedTransition"
    /\ tokens' = Append(tokens, ForcedToken("transition", SigilValue(line)))
    /\ prevTokenType' = BlankReset(line, prevTokenType)
    /\ i' = NextCursor(i)
    /\ UNCHANGED <<lines, errors, metadata, pc>>
    /\ UNCHANGED <<stripVars, scanVars, parserVars>>

ForcedCharacter ==
    /\ AtLine
    /\ HeadRule(lines, i) = "forcedCharacter"
    /\ tokens' = Append(tokens, ForcedToken("character", SigilValue(line)))
    /\ prevTokenType' = "character"
    /\ i' = NextCursor(i)
    /\ UNCHANGED <<lines, errors, metadata, pc>>
    /\ UNCHANGED <<stripVars, scanVars, parserVars>>

ForcedScene ==
    /\ AtLine
    /\ HeadRule(lines, i) = "forcedScene"
    /\ tokens' = Append(tokens, ForcedToken("scene", SigilValue(line)))
    /\ prevTokenType' = "scene"
    /\ i' = NextCursor(i)
    /\ UNCHANGED <<lines, errors, metadata, pc>>
    /\ UNCHANGED <<stripVars, scanVars, parserVars>>

\* prevTokenType is not assigned in this branch
SceneHeading ==
    /\ AtLine
    /\ HeadRule(lines, i) = "scene"
    /\ tokens' = Append(tokens, Token("scene", line))
    /\ prevTokenType' = BlankReset(line, prevTokenType)
    /\ i' = NextCursor(i)
    /\ UNCHANGED <<lines, errors, metadata, pc>>
    /\ UNCHANGED <<stripVars, scanVars, parserVars>>

\* prevTokenType is not assigned in this branch
TransitionLine ==
    /\ AtLine
    /\ HeadRule(lines, i) = "transition"
    /\ tokens' = Append(tokens, Token("transition", line))
    /\ prevTokenType' = BlankReset(line, prevTokenType)
    /\ i' = NextCursor(i)
    /\ UNCHANGED <<lines, errors, metadata, pc>>
    /\ UNCHANGED <<stripVars, scanVars, parserVars>>

\* const character = parseCharacter(line): the call, up to the while loop
EnterParseCharacter ==
    /\ AtLine
    /\ HeadRule(lines, i) = "parseCharacter"
    /\ prevTokenType' = BlankReset(line, prevTokenType)
    /\ isDual' = EndsWith(Trim(line), <<"^">>)
    /\ text' = IF EndsWith(Trim(line), <<"^">>)
               THEN Trim(SliceDropLast(Trim(line)))
               ELSE Trim(line)
    /\ extensions' = <<>>
    /\ pc' = "strip"
    /\ UNCHANGED <<lines, i, tokens, errors, metadata>>
    /\ UNCHANGED <<scanVars, parserVars>>

\* text after one iteration of the while loop of parseCharacter
StripStep(t) == StripMatch(t)

\* mutant: the extension goes to the end of the list
UnshiftAsPush(exts, e) == Append(exts, e)

\* extensions.unshift(extension)
Unshift(exts, e) == <<e>> \o exts

\* one iteration of the while loop of parseCharacter
StripExtension ==
    /\ pc = "strip"
    /\ ExtensionMatches(text)
    /\ extensions' =
          IF Len(Trim(CollapseSpaces(ExtensionInner(text)))) > 0
          THEN Unshift(extensions, Trim(CollapseSpaces(ExtensionInner(text))))
          ELSE extensions
    /\ text' = StripStep(text)
    /\ UNCHANGED <<tokVars, isDual, pc>>
    /\ UNCHANGED <<scanVars, parserVars>>

\* The if-chain of the loop body after the call of parseCharacter, for a
\* line whose stripped name is `name` and with prevTokenType p.
TailRule(ls, k, p, name) ==
    LET ln == LineAt(ls, k) IN
    IF IsCharacterName(name) /\ IsEmptyCtx(ls, k - 1) THEN "character"
    ELSE IF StartsWith(Trim(ln), <<"(">>) /\ p \in {"character", "dialogue"}
         THEN IF ~EndsWith(ln, <<")">>) /\ IsEmptyCtx(ls, k + 1) THEN "parenAsDialogue"
              ELSE IF EndsWith(ln, <<")">>) THEN "parenthetical"
              ELSE "scan"
    ELSE IF Len(Trim(ln)) > 0 /\ p \in {"character", "parenthetical"} THEN "dialogue"
    ELSE IF isCentered(ln) THEN "centered"
    ELSE IF Len(Trim(ln)) > 0 THEN "action"
    ELSE "blank"

\* parseCharacter has returned: the while loop found no further extension
AfterParseCharacter == pc = "strip" /\ ~ExtensionMatches(text)

CharacterLine ==
    /\ AfterParseCharacter
    /\ TailRule(lines, i, prevTokenType, text) = "character"
    /\ tokens' = Append(tokens, CharacterToken(text, extensions, isDual))
    /\ prevTokenType' = "character"
    /\ i' = NextCursor(i)
    /\ pc' = "tokenize"
    /\ text' = <<>> /\ extensions' = <<>> /\ isDual' = FALSE
    /\ UNCHANGED <<lines, errors, metadata>>
    /\ UNCHANGED <<scanVars, parserVars>>

\* Case 1: a single unclosed parenthetical followed by an empty line
ParenAsDialogue ==
    /\ AfterParseCharacter
    /\ TailRule(lines, i, prevTokenType, text) = "parenAsDialogue"
    /\ tokens' = Append(tokens, Token("dialogue", Trim(SliceFrom1(line))))
    /\ prevTokenType' = "dialogue"
    /\ i' = NextCursor(i)
    /\ pc' = "tokenize"
    /\ text' = <<>> /\ extensions' = <<>> /\ isDual' = FALSE
    /\ UNCHANGED <<lines, errors, metadata>>
    /\ UNCHANGED <<scanVars, parserVars>>

\* Case 2: a single-line parenthetical
ParentheticalLine ==
    /\ AfterParseCharacter
    /\ TailRule(lines, i, prevTokenType, text) = "parenthetical"
    /\ tokens' = Append(tokens, Token("parenthetical", SliceInner(line)))
    /\ prevTokenType' = "parenthetical"
    /\ i' = NextCursor(i)
    /\ pc' = "tokenize"
    /\ text' = <<>> /\ extensions' = <<>> /\ isDual' = FALSE
    /\ UNCHANGED <<lines, errors, metadata>>
    /\ UNCHANGED <<scanVars, parserVars>>

\* Case 3: a multi-line parenthetical; the locals of the look-ahead
EnterScan ==
    /\ AfterParseCharacter
    /\ TailRule(lines, i, prevTokenType, text) = "scan"
    /\ buffer' = line
    /\ usedlines' = 0
    /\ j' = i + 1
    /\ pc' = "scan"
    /\ text' = <<>> /\ extensions' = <<>> /\ isDual' = FALSE
    /\ UNCHANGED <<tokVars, parserVars>>

\* mutant: the look-ahead takes one line more
ScanCondInclusive(jj, used, n) == jj < n /\ used <= MAX_LINE

\* while (j < lines.length && usedlines < MAX_LINE)
ScanCond(jj, used, n) == jj < n /\ used < MAX_LINE

\* mutant: the continuation line is appended without the space
ScanBufferNoSpace(buf, l) == buf \o Trim(l)

\* buffer += " " + l.trim()
ScanBuffer(buf, l) == buf \o <<" ">> \o Trim(l)

\* an iteration of the look-ahead whose line does not close the parenthetical
ScanContinue ==
    /\ pc = "scan"
    /\ ScanCond(j, usedlines, Len(lines))
    /\ ~IsEmptyCtx(lines, j)
    /\ ~EndsWith(Trim(LineAt(lines, j)), <<")">>)
    /\ buffer' = ScanBuffer(buffer, LineAt(lines, j))
    /\ usedlines' = usedlines + 1
    /\ j' = j + 1
    /\ UNCHANGED <<tokVars, stripVars, parserVars, pc>>

\* i = j: the cursor at the line that closes the parenthetical
ClosedCursor(ii, jj) == jj

\* the iteration of the look-ahead whose line ends with ")"
ScanClose ==
    /\ pc = "scan"
    /\ ScanCond(j, usedlines, Len(lines))
    /\ ~IsEmptyCtx(lines, j)
    /\ EndsWith(Trim(LineAt(lines, j)), <<")">>)
    /\ tokens' = Append(tokens,
          Token("parenthetical",
                Trim(SliceInner(Trim(ScanBuffer(buffer, LineAt(lines, j)))))))
    /\ prevTokenType' = "parenthetical"
    /\ i' = NextCursor(ClosedCursor(i, j))
    /\ pc' = "tokenize"
    /\ buffer' = <<>> /\ usedlines' = 0 /\ j' = 0
    /\ UNCHANGED <<lines, errors, metadata>>
    /\ UNCHANGED <<stripVars, parserVars>>

\* mutant: the error carries the look-ahead cursor
ErrorLineLookahead(ii, jj) == jj

\* line: i of the UnclosedParenthetical error
ErrorLine(ii, jj) == ii

\* mutant: the cursor goes to the last line the look-ahead read
UnclosedCursorSkips(ii, jj) == jj - 1

\* closed = false: i is not assigned, the cursor stays at the opening line
UnclosedCursor(ii, jj) == ii

\* the look-ahead ended (no line left, MAX_LINE lines used, or a blank line)
\* with closed = false
ScanUnclosed ==
    /\ pc = "scan"
    /\ IF ScanCond(j, usedlines, Len(lines)) THEN IsEmptyCtx(lines, j) ELSE TRUE
    /\ errors' = Append(errors, ParseError(ErrorLine(i, j), buffer))
    /\ tokens' = Append(tokens, Token("parenthetical", Trim(buffer)))
    /\ i' = NextCursor(UnclosedCursor(i, j))
    /\ pc' = "tokenize"
    /\ buffer' = <<>> /\ usedlines' = 0 /\ j' = 0
    /\ UNCHANGED <<lines, prevTokenType, metadata>>
    /\ UNCHANGED <<stripVars, parserVars>>

DialogueLine ==
    /\ AfterParseCharacter
    /\ TailRule(lines, i, prevTokenType, text) = "dialogue"
    /\ tokens' = Append(tokens, Token("dialogue", Trim(line)))
    /\ prevTokenType' = "dialogue"
    /\ i' = NextCursor(i)
    /\ pc' = "tokenize"
    /\ text' = <<>> /\ extensions' = <<>> /\ isDual' = FALSE
    /\ UNCHANGED <<lines, errors, metadata>>
    /\ UNCHANGED <<scanVars, parserVars>>

CenteredLine ==
    /\ AfterParseCharacter
    /\ TailRule(lines, i, prevTokenType, text) = "centered"
    /\ tokens' = Append(tokens, CenteredToken(Trim(StripCenterMarks(line))))
    /\ prevTokenType' = "action"
    /\ i' = NextCursor(i)
    /\ pc' = "tokenize"
    /\ text' = <<>> /\ extensions' = <<>> /\ isDual' = FALSE
    /\ UNCHANGED <<lines, errors, metadata>>
    /\ UNCHANGED <<scanVars, parserVars>>

ActionLine ==
    /\ AfterParseCharacter
    /\ TailRule(lines, i, prevTokenType, text) = "action"
    /\ tokens' = Append(tokens, Token("action", line))
    /\ prevTokenType' = "action"
    /\ i' = NextCursor(i)
    /\ pc' = "tokenize"
    /\ text' = <<>> /\ extensions' = <<>> /\ isDual' = FALSE
    /\ UNCHANGED <<lines, errors, metadata>>
    /\ UNCHANGED <<scanVars, parserVars>>

\* a whitespace-only line: no branch of the loop body takes it
BlankLine ==
    /\ AfterParseCharacter
    /\ TailRule(lines, i, prevTokenType, text) = "blank"
    /\ i' = NextCursor(i)
    /\ pc' = "tokenize"
    /\ text' = <<>> /\ extensions' = <<>> /\ isDual' = FALSE
    /\ UNCHANGED <<lines, prevTokenType, tokens, errors, metadata>>
    /\ UNCHANGED <<scanVars, parserVars>>

\* return { metadata, tokens, errors }: the Parser's loop starts
TokenizeReturn ==
    /\ pc = "tokenize"
    /\ ~(i < Len(lines))
    /\ pc' = "parse"
    /\ UNCHANGED <<tokVars, stripVars, scanVars, parserVars>>

(***************************************************************************)
(* Parser: the loop over the tokens.  One action per branch.               *)
(***************************************************************************)
AtToken == pc = "parse" /\ pidx < Len(tokens)

token == tokens[pidx + 1]

\* { type: "scene", value, content: [], forced? }
SceneBlock(tok) ==
    [type |-> "scene", value |-> tok.value, content |-> <<>>, forced |-> tok.forced]

\* mutant: the action branch leaves the forced flag out
ActionNodeUnforced(tok) == [type |-> "action", value |-> tok.value, forced |-> FALSE]

\* { type: "action", value, forced? }
ActionNode(tok) == [type |-> "action", value |-> tok.value, forced |-> tok.forced]

\* mutant: the transition branch builds an action node
TransitionNodeAsAction(tok) ==
    [type |-> "action", value |-> tok.value, forced |-> tok.forced]

\* { type: "transition", value, forced? }
TransitionNode(tok) ==
    [type |-> "transition", value |-> tok.value, forced |-> tok.forced]

\* character: lastCharacter || ""
DialogueCharacter(lc) == IF lc = None THEN <<>> ELSE lc[1]

\* { type: "dialogue", character, parenthetical, value, forced? }
DialogueNode(tok, lc, lp) ==
    [type |-> "dialogue", character |-> DialogueCharacter(lc), parenthetical |-> lp,
     value |-> tok.value, forced |-> tok.forced]

\* mutant: the target is always the top-level sequence
TargetPushTop(d, cs, node) == Append(d, node)

\* targetArray.push(node), targetArray = currentScene ? currentScene.content : data;
\* currentScene is the SceneBlock object that data holds at index cs
TargetPush(d, cs, node) ==
    IF cs # 0
    THEN [d EXCEPT ![cs].content = Append(@, node)]
    ELSE Append(d, node)

\* mutant: the scene branch leaves lastCharacter as it is
CharacterAfterSceneKept(lc) == lc

\* lastCharacter = null, in the scene branch
CharacterAfterScene(lc) == None

\* lastParenthetical = null, in the scene branch
ParentheticalAfterScene(lp) == None

ParseScene ==
    /\ AtToken
    /\ token.type = "scene"
    /\ data' = Append(data, SceneBlock(token))
    /\ currentScene' = Len(data) + 1
    /\ lastCharacter' = CharacterAfterScene(lastCharacter)
    /\ lastParenthetical' = ParentheticalAfterScene(lastParenthetical)
    /\ pidx' = pidx + 1
    /\ UNCHANGED <<tokVars, stripVars, scanVars, pc>>

ParseAction ==
    /\ AtToken
    /\ token.type = "action"
    /\ data' = TargetPush(data, currentScene, ActionNode(token))
    /\ pidx' = pidx + 1
    /\ UNCHANGED <<currentScene, lastCharacter, lastParenthetical>>
    /\ UNCHANGED <<tokVars, stripVars, scanVars, pc>>

ParseTransition ==
    /\ AtToken
    /\ token.type = "transition"
    /\ data' = TargetPush(data, currentScene, TransitionNode(token))
    /\ pidx' = pidx + 1
    /\ UNCHANGED <<currentScene, lastCharacter, lastParenthetical>>
    /\ UNCHANGED <<tokVars, stripVars, scanVars, pc>>

\* lastCharacter = token.value, in the character branch
CharacterAfterCharacter(tok, lc) == Some(tok.value)

\* lastParenthetical = null, in the character branch
ParentheticalAfterCharacter(tok, lp) == None

ParseCharacter ==
    /\ AtToken
    /\ token.type = "character"
    /\ lastCharacter' = CharacterAfterCharacter(token, lastCharacter)
    /\ lastParenthetical' = ParentheticalAfterCharacter(token, lastParenthetical)
    /\ pidx' = pidx + 1
    /\ UNCHANGED <<data, currentScene>>
    /\ UNCHANGED <<tokVars, stripVars, scanVars, pc>>

\* mutant: the dialogue branch stores the token's text
ParentheticalAfterDialogueSet(tok, lp) == Some(tok.value)

\* lastParenthetical = null, in the dialogue branch
ParentheticalAfterDialogue(tok, lp) == None

\* mutant: the dialogue branch clears lastCharacter as well
CharacterAfterDialogueCleared(tok, lc) == None

\* lastCharacter is not assigned in the dialogue branch
CharacterAfterDialogue(tok, lc) == lc

ParseDialogue ==
    /\ AtToken
    /\ token.type = "dialogue"
    /\ data' = TargetPush(data, currentScene,
                          DialogueNode(token, lastCharacter, lastParenthetical))
    /\ lastParenthetical' = ParentheticalAfterDialogue(token, lastParenthetical)
    /\ lastCharacter' = CharacterAfterDialogue(token, lastCharacter)
    /\ pidx' = pidx + 1
    /\ UNCHANGED currentScene
    /\ UNCHANGED <<tokVars, stripVars, scanVars, pc>>

\* case "parenthesis": the label of the branch that sets lastParenthetical
ParenthesisCase == "parenthesis"

\* A token that is neither a scene nor the label of one of the four branches
\* above: the switch takes the "parenthesis" branch if the type is that label
\* and no branch otherwise.
ParseOther ==
    /\ AtToken
    /\ token.type \notin {"scene", "action", "transition", "character", "dialogue"}
    /\ lastParenthetical' = IF token.type = ParenthesisCase
                            THEN Some(token.value)
                            ELSE lastParenthetical
    /\ pidx' = pidx + 1
    /\ UNCHANGED <<data, currentScene, lastCharacter>>
    /\ UNCHANGED <<tokVars, stripVars, scanVars, pc>>

\* return { metadata, data }
ParserReturn ==
    /\ pc = "parse"
    /\ ~(pidx < Len(tokens))
    /\ pc' = "done"
    /\ UNCHANGED <<tokVars, stripVars, scanVars, parserVars>>

(***************************************************************************)
(* The input texts                                                         *)
(***************************************************************************)
L_Empty == <<>>
L_Blank == <<" ">>
L_Credit == <<"T","i","t","l","e",":"," ","a",":","b">>
L_ForcedAction == <<"!","g","o">>
L_ForcedTransition == <<">","C","U","T">>
L_ForcedCharacter == <<"@","b","o","b">>
L_ForcedScene == <<".","S">>
L_Scene == <<"I","N","T","."," ","X">>
L_Transition == <<"C","U","T"," ","T","O",":">>
L_John == <<"J","O","H","N">>
L_JohnVO == <<"J","O","H","N"," ","(","V",".","O",".",")">>
L_JohnDual == <<"J","O","H","N","^">>
L_Paren == <<"(","x",")">>
L_ParenOpen == <<"(","y">>
L_Text == <<"h","i">>
L_Centered == <<">","c","<">>
L_ParenOpen2 == <<"(","z">>
L_ParenClose == <<"w",")">>
L_IndentAction == <<" ","!","g","o">>
L_CueTwo == <<"A","L"," ","(","V",".","O",".",")"," ","(","O",".","S",".",")","^">>
L_Junior == <<"J","R",".">>
L_ParenUpper == <<"(","Y">>
L_ExTitle == <<"T","i","t","l","e",":"," ","M","y"," ","M","o","v","i","e">>
L_ExScene == <<"I","N","T","."," ","H","O","U","S","E"," ","-"," ","D","A","Y">>
L_ExHello == <<"H","e","l","l","o"," ","t","h","e","r","e",".">>
L_ExAction == <<"!","J","o","h","n"," ","o","p","e","n","s"," ","t","h","e"," ","d","o","o","r",".">>
L_ExWhisper == <<"(","w","h","i","s","p","e","r","i","n","g",")">>
L_ExHelloDot == <<"H","e","l","l","o",".">>

\* Bounds
MaxLines == 2
MaxCore == 5
MaxDlg == 4
MaxCont == 4
MaxCue == 4
MaxMix == 3

\* the sequences over S of length 1..n (split never returns an empty list)
BSeq(S, n) == UNION {[1..m -> S] : m \in 1..n}

\* every kind of line the tokenizer distinguishes
LinePool ==
    {L_Empty, L_Blank, L_Credit, L_ForcedAction, L_ForcedTransition,
     L_ForcedCharacter, L_ForcedScene, L_Scene, L_Transition, L_JohnVO,
     L_Paren, L_ParenOpen, L_Text, L_Centered}

\* the lines of a scene: headings, cues, text and empty lines
CorePool == {L_John, L_Empty, L_Scene, L_Text}

\* the lines of a dialogue block under a forced scene heading
DlgPool == {L_ForcedCharacter, L_Paren, L_Text, L_ParenOpen, L_ForcedScene}

\* the lines that may follow the opening line of a parenthetical
ContPool == {L_Text, L_ParenOpen2, L_ParenClose, L_Blank}

\* a character cue, a line that opens a parenthetical, and up to MaxCont lines
ParenBlocks ==
    {<<cue, L_ParenOpen>> \o rest :
        cue \in {L_John, L_ForcedCharacter}, rest \in BSeq(ContPool, MaxCont)}

\* cues with extensions and a dual mark, an upper-case name that ends with a
\* full stop, empty lines, and a parenthetical written in upper case
CuePool == {L_Empty, L_CueTwo, L_Junior, L_ParenUpper, L_ParenClose}

\* the lines a look-ahead may read that the main loop gives a rule of its own
MixPool == {L_IndentAction, L_Credit, L_ParenClose}

\* a character cue, a line that opens a parenthetical, and up to MaxMix lines
MixBlocks ==
    {<<L_John, L_ParenOpen>> \o rest : rest \in BSeq(MixPool, MaxMix)}

\* the example texts of the documentation, and a transition between a cue
\* and its text
Examples ==
    {<<L_ExTitle, L_Empty, L_ExScene, L_Empty, L_John, L_ExHello>>,
     <<L_Empty, L_ExAction, L_Empty>>,
     <<L_Empty, L_John, L_ExWhisper, L_ExHelloDot, L_Empty>>,
     <<L_JohnDual>>,
     <<L_John, L_ForcedTransition, L_Text>>}

Inputs ==
    BSeq(LinePool, MaxLines) \cup BSeq(CorePool, MaxCore)
        \cup BSeq(DlgPool, MaxDlg) \cup ParenBlocks
        \cup BSeq(CuePool, MaxCue) \cup MixBlocks \cup Examples

Init ==
    /\ lines \in Inputs
    /\ i = 0
    /\ prevTokenType = "null"
    /\ tokens = <<>>
    /\ errors = <<>>
    /\ metadata = {}
    /\ text = <<>>
    /\ extensions = <<>>
    /\ isDual = FALSE
    /\ buffer = <<>>
    /\ usedlines = 0
    /\ j = 0
    /\ pidx = 0
    /\ data = <<>>
    /\ currentScene = 0
    /\ lastCharacter = None
    /\ lastParenthetical = None
    /\ pc = "tokenize"

Next ==
    \/ EmptyLine
    \/ CreditLine
    \/ ForcedAction
    \/ ForcedTransition
    \/ ForcedCharacter
    \/ ForcedScene
    \/ SceneHeading
    \/ TransitionLine
    \/ EnterParseCharacter
    \/ StripExtension
    \/ CharacterLine
    \/ ParenAsDialogue
    \/ ParentheticalLine
    \/ EnterScan
    \/ ScanContinue
    \/ ScanClose
    \/ ScanUnclosed
    \/ DialogueLine
    \/ CenteredLine
    \/ ActionLine
    \/ BlankLine
    \/ TokenizeReturn
    \/ ParseScene
    \/ ParseAction
    \/ ParseTransition
    \/ ParseCharacter
    \/ ParseDialogue
    \/ ParseOther
    \/ ParserReturn

Spec == Init /\ [][Next]_vars

(***************************************************************************)
(* The Document against the token list                                     *)
(***************************************************************************)
NodeKinds == {"scene", "action", "transition", "dialogue"}
ContentKinds == {"action", "transition", "dialogue"}

\* The Document in reading order: each SceneBlock, then its content.
RECURSIVE Flatten(_)
Flatten(d) ==
    IF Len(d) = 0 THEN <<>>
    ELSE (IF d[1].type = "scene" THEN <<d[1]>> \o d[1].content ELSE <<d[1]>>)
            \o Flatten(Tail(d))

\* The indices, in order, of the tokens among toks[1..k] whose type is in kinds.
RECURSIVE IndicesOf(_, _, _)
IndicesOf(toks, k, kinds) ==
    IF k = 0 THEN <<>>
    ELSE IF toks[k].type \in kinds
         THEN Append(IndicesOf(toks, k - 1, kinds), k)
         ELSE IndicesOf(toks, k - 1, kinds)

\* The nodes built so far and the tokens they are built from.
Nodes == Flatten(data)
NodeTokens == IndicesOf(tokens, pidx, NodeKinds)

\* The most recent token before toks[d] whose type is in kinds, 0 if none.
LastBefore(toks, d, kinds) ==
    IF \E t \in 1..(d - 1) : toks[t].type \in kinds
    THEN CHOOSE t \in 1..(d - 1) :
            /\ toks[t].type \in kinds
            /\ \A m \in (t + 1)..(d - 1) : toks[m].type \notin kinds
    ELSE 0

\* The parenthetical still pending at toks[d]: the most recent Parenthetical
\* token with no Scene, Character or Dialogue token after it; 0 if none.
PendingParenthetical(toks, d) ==
    IF /\ LastBefore(toks, d, {"parenthetical"}) > 0
       /\ LastBefore(toks, d, {"scene", "character", "dialogue"})
             < LastBefore(toks, d, {"parenthetical"})
    THEN LastBefore(toks, d, {"parenthetical"})
    ELSE 0

\* The character in force at toks[d]: the most recent Character token with no
\* Scene token after it; 0 if none.
CharacterInForce(toks, d) ==
    IF /\ LastBefore(toks, d, {"character"}) > 0
       /\ LastBefore(toks, d, {"scene"}) < LastBefore(toks, d, {"character"})
    THEN LastBefore(toks, d, {"character"})
    ELSE 0

ExampleWhisper == <<L_Empty, L_John, L_ExWhisper, L_ExHelloDot, L_Empty>>

\* C1: whenever a Parenthetical token is followed by a Dialogue token with no
\* Scene, Character or Dialogue token in between, the Dialogue node of the
\* returned Document carries that token's text as its parenthetical; the
\* text JOHN / (whispering) / Hello. between blank lines gives the single
\* node {character JOHN, parenthetical whispering, text Hello.}.
C1_ParentheticalAttached ==
    pc = "done" =>
        /\ \A n \in 1..Len(Nodes) :
              (/\ Nodes[n].type = "dialogue"
               /\ PendingParenthetical(tokens, NodeTokens[n]) > 0)
              => Nodes[n].parenthetical =
                    Some(tokens[PendingParenthetical(tokens, NodeTokens[n])].value)
        /\ lines = ExampleWhisper =>
              Nodes = <<[type |-> "dialogue", character |-> L_John,
                         parenthetical |-> Some(SliceInner(L_ExWhisper)),
                         value |-> L_ExHelloDot, forced |-> FALSE]>>

\* C2: each Dialogue node's character is the text of the most recent
\* Character token after the most recent Scene token, and "" if there is
\* none; no other token changes it.
C2_DialogueCharacter ==
    \A n \in 1..Len(Nodes) :
        Nodes[n].type = "dialogue" =>
            Nodes[n].character =
                IF CharacterInForce(tokens, NodeTokens[n]) = 0
                THEN <<>>
                ELSE tokens[CharacterInForce(tokens, NodeTokens[n])].value

\* C2 witness: two Dialogue nodes built from consecutive tokens, both under
\* the same named character.
C2_Witness ==
    /\ pc = "done"
    /\ \E n \in 1..(Len(Nodes) - 1) :
          /\ Nodes[n].type = "dialogue"
          /\ Nodes[n + 1].type = "dialogue"
          /\ NodeTokens[n + 1] = NodeTokens[n] + 1
          /\ Nodes[n].character # <<>>
          /\ Nodes[n + 1].character = Nodes[n].character

\* C3: after a Scene token is processed lastCharacter and lastParenthetical
\* are none, and a Dialogue token that follows a Scene token with no
\* Character token in between gives a node with character "" and
\* parenthetical none.
C3_SceneClearsContext ==
    /\ (pc = "parse" /\ pidx > 0 /\ tokens[pidx].type = "scene")
          => (lastCharacter = None /\ lastParenthetical = None)
    /\ \A n \in 1..Len(Nodes) :
          (/\ Nodes[n].type = "dialogue"
           /\ LastBefore(tokens, NodeTokens[n], {"scene"}) > 0
           /\ CharacterInForce(tokens, NodeTokens[n]) = 0)
          => (Nodes[n].character = <<>> /\ Nodes[n].parenthetical = None)

\* C3 witness: a Dialogue node built after a Scene token with no Character
\* token in between, where a Character token precedes the Scene token.
C3_Witness ==
    /\ pc = "done"
    /\ \E n \in 1..Len(Nodes) :
          /\ Nodes[n].type = "dialogue"
          /\ LastBefore(tokens, NodeTokens[n], {"scene"}) > 0
          /\ CharacterInForce(tokens, NodeTokens[n]) = 0
          /\ LastBefore(tokens, NodeTokens[n], {"character"}) > 0

SceneTokens == IndicesOf(tokens, pidx, {"scene"})
CountContent(toks, a, b) == Cardinality({t \in a..b : toks[t].type \in ContentKinds})
TopContent == Len(data) - Len(SceneTokens)

\* C5: the nodes built before the first Scene token are the top-level
\* content; after a Scene token the top level only gains SceneBlocks, the
\* current scene is the last top-level element, and every node goes to the
\* content of the most recently created SceneBlock.
C5_TargetContainer ==
    /\ TopContent >= 0
    /\ \A n \in 1..TopContent : data[n].type \in ContentKinds
    /\ \A n \in (TopContent + 1)..Len(data) : data[n].type = "scene"
    /\ TopContent = CountContent(tokens, 1,
                       IF Len(SceneTokens) = 0 THEN pidx ELSE SceneTokens[1] - 1)
    /\ \A k \in 1..Len(SceneTokens) :
          Len(data[TopContent + k].content) =
              CountContent(tokens, SceneTokens[k] + 1,
                  IF k < Len(SceneTokens) THEN SceneTokens[k + 1] - 1 ELSE pidx)
    /\ currentScene = IF Len(SceneTokens) = 0 THEN 0 ELSE Len(data)

\* C5 witness: top-level content, then two SceneBlocks, the last with content.
C5_Witness ==
    /\ pc = "done"
    /\ TopContent >= 1
    /\ Len(SceneTokens) >= 2
    /\ Len(data[Len(data)].content) >= 1

\* C6: in reading order the Document holds exactly one node per Scene,
\* Action, Transition and Dialogue token, in token order, each with the
\* type and the text of its token; Character and Parenthetical tokens give
\* no node.
C6_OrderAndConservation ==
    /\ Len(Nodes) = Len(NodeTokens)
    /\ \A n \in 1..Len(Nodes) :
          /\ Nodes[n].type = tokens[NodeTokens[n]].type
          /\ Nodes[n].value = tokens[NodeTokens[n]].value

\* C6 witness: a Document built from Scene, Character, Parenthetical and
\* Dialogue tokens, with a SceneBlock that has content and fewer nodes than
\* tokens.
C6_Witness ==
    /\ pc = "done"
    /\ {"scene", "character", "parenthetical", "dialogue"}
          \subseteq {tokens[t].type : t \in 1..Len(tokens)}
    /\ Len(Nodes) < Len(tokens)
    /\ \E n \in 1..Len(data) : data[n].type = "scene" /\ Len(data[n].content) >= 1

(***************************************************************************)
(* Termination.  The pipeline is one synchronous call: a step that can be  *)
(* taken is taken.                                                         *)
(***************************************************************************)
\* The texts of the breadth and parenthetical families and the examples.
FairInputs == BSeq(LinePool, MaxLines) \cup ParenBlocks \cup Examples

FairInit ==
    /\ Init
    /\ lines \in FairInputs

FairSpec == FairInit /\ [][Next]_vars /\ WF_vars(Next)

\* C7: the pipeline terminates and returns a Document: every iteration of
\* the Tokenizer's main loop ends with the cursor strictly further (also
\* when the look-ahead closes a parenthetical), the look-ahead runs at most
\* MAX_LINE iterations, every iteration of the extension loop shortens its
\* text, and the Document is returned (a step that raised a failure would
\* leave the pipeline short of it for ever).
C7_Terminates ==
    /\ [][(pc \in {"tokenize", "strip", "scan"} /\ pc' = "tokenize") => i' > i]_vars
    /\ [](usedlines <= MAX_LINE /\ (pc = "scan" => j - (i + 1) = usedlines))
    /\ [][(pc = "strip" /\ pc' = "strip") => Len(text') < Len(text)]_vars
    /\ <>(pc = "done")

\* C7 witness: a Document returned for a text of at least four lines whose
\* second token is a parenthetical closed by the look-ahead two lines
\* further on.
C7_Witness ==
    /\ pc = "done"
    /\ Len(lines) >= 4
    /\ errors = <<>>
    /\ Len(tokens) = 2
    /\ tokens[1].type = "character"
    /\ tokens[2].type = "parenthetical"

\* C8: after an empty line (zero-length or whitespace-only) the Tokenizer's
\* previous-token-kind state is none: when the main loop is at a line whose
\* previous line is empty, prevTokenType is null, so that line is classified
\* neither as Dialogue by the continuation rule nor as a Parenthetical.
C8_EmptyLineResets ==
    (pc = "tokenize" /\ i >= 1 /\ Len(Trim(LineAt(lines, i - 1))) = 0)
        => prevTokenType = "null"

\* C9: a Dialogue token emitted by the dialogue-continuation rule comes
\* immediately after a Character or Parenthetical token.
C9_DialogueAfterCue ==
    [][DialogueLine =>
          (Len(tokens) > 0
           /\ tokens[Len(tokens)].type \in {"character", "parenthetical"})]_vars

\* The name parseCharacter is left with when its loop ends.
RECURSIVE StripAll(_)
StripAll(t) == IF ExtensionMatches(t) THEN StripAll(StripMatch(t)) ELSE t

CharacterName(ln) ==
    StripAll(IF EndsWith(Trim(ln), <<"^">>) THEN Trim(SliceDropLast(Trim(ln))) ELSE Trim(ln))

\* ls[c] is a character cue: a line the if-chain classifies as a Character.
\* The main loop reaches it: the line before it is absent or blank, or the
\* cue does not end with ")" (no look-ahead before it stops on it).
IsCue(ls, c) ==
    /\ HasLine(ls, c)
    /\ \/ HeadRule(ls, c) = "forcedCharacter"
          /\ (IsEmptyCtx(ls, c - 1) \/ ~EndsWith(Trim(LineAt(ls, c)), <<")">>))
       \/ HeadRule(ls, c) = "parseCharacter"
          /\ IsCharacterName(CharacterName(LineAt(ls, c)))
          /\ IsEmptyCtx(ls, c - 1)

\* ls[k] opens a parenthetical after a cue, and it and the 4 lines after it
\* are non-blank and do not end with ")".
UnclosedCase(ls, k) ==
    /\ k >= 1
    /\ HasLine(ls, k + 4)
    /\ IsCue(ls, k - 1)
    /\ StartsWith(LineAt(ls, k), <<"(">>)
    /\ \A m \in k..(k + 4) :
          /\ Len(Trim(LineAt(ls, m))) > 0
          /\ ~EndsWith(Trim(LineAt(ls, m)), <<")">>)

\* The opening line and the three lines after it, trimmed, joined by spaces.
OpenBuffer(ls, k) ==
    LineAt(ls, k) \o <<" ">> \o Trim(LineAt(ls, k + 1)) \o <<" ">>
        \o Trim(LineAt(ls, k + 2)) \o <<" ">> \o Trim(LineAt(ls, k + 3))

\* C10: for a character cue followed by a line starting with "(" and 4 more
\* non-blank lines, none of the five ending with ")", the error list of the
\* Tokenizer holds exactly one UnclosedParenthetical entry for the opening
\* line, and a Parenthetical token holding the accumulated text is emitted.
C10_UnclosedReported ==
    pc \in {"parse", "done"} =>
        \A k \in 1..Len(lines) :
            UnclosedCase(lines, k) =>
                /\ Cardinality({e \in 1..Len(errors) :
                        /\ errors[e].type = "UnclosedParenthetical"
                        /\ errors[e].line = k}) = 1
                /\ \E t \in 1..Len(tokens) :
                        /\ tokens[t].type = "parenthetical"
                        /\ tokens[t].value = Trim(OpenBuffer(lines, k))

\* C10 witness: the case, with one of the following lines opening a
\* parenthetical of its own that is reported as well.
C10_Witness ==
    /\ pc = "done"
    /\ \E k \in 1..Len(lines) : UnclosedCase(lines, k)
    /\ Len(errors) >= 2

(***************************************************************************)
(* The rules of the per-line order, line by line.  A step that moves the   *)
(* cursor from i to i' has dealt with the lines i .. i' - 1.               *)
(***************************************************************************)
\* The sigil a line carries: "!" (action), ">" without the centered shape
\* (transition), "@" (character), "." (scene); "none" for a credit line, an
\* empty line and any other line.
SigilKind(ln) ==
    IF Len(ln) = 0 \/ isCredit(ln) THEN "none"
    ELSE IF StartsWith(Trim(ln), <<"!">>) THEN "action"
    ELSE IF StartsWith(Trim(ln), <<">">>) /\ ~EndsWith(Trim(ln), <<"<">>) THEN "transition"
    ELSE IF StartsWith(ln, <<"@">>) THEN "character"
    ELSE IF StartsWith(Trim(ln), <<".">>) THEN "scene"
    ELSE "none"

\* C11: explicit sigils always win: every non-credit line that carries a
\* sigil is dealt with on its own and yields a forced token of the sigil's
\* kind, whatever the lines around it and the previous-token kind; no other
\* rule classifies it and no look-ahead swallows it.
C11_SigilsWin ==
    [][i' # i =>
          \A k \in i..(i' - 1) :
              SigilKind(LineAt(lines, k)) # "none" =>
                  /\ k = i
                  /\ i' = i + 1
                  /\ Len(tokens') = Len(tokens) + 1
                  /\ tokens'[Len(tokens')].type = SigilKind(LineAt(lines, k))
                  /\ tokens'[Len(tokens')].forced]_vars

\* The five metadata keys, and the key a credit line starts with.
MetadataKeys ==
    {<<"T","i","t","l","e">>, <<"C","r","e","d","i","t">>,
     <<"A","u","t","h","o","r">>, <<"D","r","a","f","t"," ","D","a","t","e">>,
     <<"S","o","u","r","c","e">>}

HasMetadataKey(ln) == \E key \in MetadataKeys : StartsWith(ln, key \o <<":">>)

MetadataKeyOf(ln) == CHOOSE key \in MetadataKeys : StartsWith(ln, key \o <<":">>)

\* The remainder of the line after its first ":", trimmed; none if empty.
AfterFirstColon(ln) ==
    LET p == CHOOSE q \in 1..Len(ln) :
                 ln[q] = ":" /\ \A r \in 1..(q - 1) : ln[r] # ":"
    IN  Trim(SubSeq(ln, p + 1, Len(ln)))

MetadataValueOf(ln) ==
    IF Len(AfterFirstColon(ln)) = 0 THEN None ELSE Some(AfterFirstColon(ln))

\* C12: a line that starts with one of the five keys followed by ":" emits
\* no token, and the value stored under the key is the whole remainder of
\* the line after the first ":" trimmed (later ":" kept), or null when that
\* remainder is empty.
C12_MetadataValue ==
    [][(pc = "tokenize" /\ i < Len(lines) /\ i' # i /\ HasMetadataKey(line)) =>
          /\ tokens' = tokens
          /\ [key |-> MetadataKeyOf(line), value |-> MetadataValueOf(line)]
                \in metadata']_vars

\* The centered shape: the trimmed line starts with ">" and ends with "<".
CenteredShape(ln) == StartsWith(Trim(ln), <<">">>) /\ EndsWith(Trim(ln), <<"<">>)

\* The centered flag of a node of the Document (a node without the field
\* does not have it true).
NodeCentered(node) == "centered" \in DOMAIN node /\ node.centered

\* C13: every line classified by the centered-action rule is in the returned
\* Document as an Action node with centered true and with the line's text
\* stripped of its leading ">" and trailing "<" and trimmed; an Action node
\* built from any other line does not have centered true.
C13_CenteredInDocument ==
    pc = "done" =>
        \A n \in 1..Len(Nodes) :
            Nodes[n].type = "action" =>
                /\ NodeCentered(Nodes[n]) = tokens[NodeTokens[n]].centered
                /\ tokens[NodeTokens[n]].centered =>
                      \E k \in 1..Len(lines) :
                          /\ CenteredShape(lines[k])
                          /\ Nodes[n].value = Trim(StripCenterMarks(Trim(lines[k])))

ExampleForcedAction == <<L_Empty, L_ExAction, L_Empty>>

\* C14: the forced flag goes from token to Document: a token is forced
\* exactly when a sigil rule classified its line, and the SceneBlock or
\* content node built from a Scene, Action or Transition token has forced
\* true exactly when the token has; the text "!John opens the door."
\* between blank lines gives the single top-level node
\* {Action, "John opens the door.", forced}.
C14_ForcedPropagated ==
    /\ [](\A n \in 1..Len(Nodes) :
              Nodes[n].type \in {"scene", "action", "transition"} =>
                  Nodes[n].forced = tokens[NodeTokens[n]].forced)
    /\ []((pc = "done" /\ lines = ExampleForcedAction) =>
              data = <<[type |-> "action", value |-> SigilValue(L_ExAction),
                        forced |-> TRUE]>>)
    /\ [][Len(tokens') = Len(tokens) + 1 =>
              (tokens'[Len(tokens')].forced <=> SigilKind(line) # "none")]_vars

\* C14 witness: a Document with a forced Action node and an unforced node
\* among its Scene, Action and Transition nodes.
C14_Witness ==
    /\ pc = "done"
    /\ \E n \in 1..Len(Nodes) : Nodes[n].type = "action" /\ Nodes[n].forced
    /\ \E n \in 1..Len(Nodes) :
          Nodes[n].type \in {"scene", "action", "transition"} /\ ~Nodes[n].forced

(***************************************************************************)
(* Character lines                                                         *)
(***************************************************************************)
\* Character lines by their parts: an upper-case name, the inner texts of
\* the trailing groups from left to right, and the dual mark.
CueShapes ==
    {[name |-> L_John, groups |-> <<>>, dual |-> FALSE],
     [name |-> L_John, groups |-> <<<<"V",".","O",".">>>>, dual |-> FALSE],
     [name |-> L_John, groups |-> <<>>, dual |-> TRUE],
     [name |-> <<"A","L">>,
      groups |-> <<<<"V",".","O",".">>, <<"O",".","S",".">>>>, dual |-> TRUE],
     [name |-> L_Junior, groups |-> <<>>, dual |-> FALSE]}

RECURSIVE GroupsText(_)
GroupsText(gs) ==
    IF Len(gs) = 0 THEN <<>>
    ELSE <<" ", "(">> \o gs[1] \o <<")">> \o GroupsText(Tail(gs))

\* The line written from the parts: NAME (GROUP) ... (GROUP)^
CueLine(c) == c.name \o GroupsText(c.groups) \o (IF c.dual THEN <<"^">> ELSE <<>>)

IsCueShape(ln) == \E c \in CueShapes : CueLine(c) = ln

ShapeOf(ln) == CHOOSE c \in CueShapes : CueLine(c) = ln

\* The line at the cursor is a character line whose previous line is absent
\* or blank, and the step deals with it.
CueStep == i' # i /\ IsCueShape(line) /\ IsEmptyCtx(lines, i - 1)

\* The Character token of a character line.
CueToken(ln) == CharacterToken(ShapeOf(ln).name, ShapeOf(ln).groups, ShapeOf(ln).dual)

\* C15 as stated: every line made of an upper-case name, k >= 0 trailing
\* groups and an optional "^", with the previous line absent or blank, gives
\* a Character token with the name alone, the groups' inner texts from left
\* to right and isDual true exactly when the "^" is there.
C15_CharacterExtraction ==
    [][CueStep => (i' = i + 1 /\ tokens' = Append(tokens, CueToken(line)))]_vars

\* A rule before the character rule in the per-line order takes the line: a
\* credit line, a sigil, the scene-heading or the transition heuristic.
EarlierRule(ls, k) ==
    \/ HasMetadataKey(LineAt(ls, k))
    \/ SigilKind(LineAt(ls, k)) # "none"
    \/ isScene(ls, k)
    \/ isTransition(ls, k)

\* C15 amended: the same, for the character lines that no earlier rule of
\* the per-line order takes.
C15_CharacterExtractionAmended ==
    [][(CueStep /\ ~EarlierRule(lines, i)) =>
          (i' = i + 1 /\ tokens' = Append(tokens, CueToken(line)))]_vars

\* C15 witness: the Character tokens of a line with two groups and a dual
\* mark and of a name that ends with a full stop.
C15_Witness ==
    /\ pc = "done"
    /\ \E t \in 1..Len(tokens) :
          /\ tokens[t].type = "character"
          /\ Len(tokens[t].extensions) = 2
          /\ tokens[t].isDual
    /\ \E t \in 1..Len(tokens) :
          tokens[t].type = "character" /\ tokens[t].value = L_Junior

(***************************************************************************)
(* Parentheticals                                                          *)
(***************************************************************************)
\* ls[m] is a line of the text and is not blank.
NonBlank(ls, m) == HasLine(ls, m) /\ Len(Trim(LineAt(ls, m))) > 0

\* ls[m] ends with ")".
Closes(ls, m) == EndsWith(Trim(LineAt(ls, m)), <<")">>)

\* The n lines after ls[k] are non-blank and the n-th is the first of them
\* that ends with ")".
ClosesAt(ls, k, n) ==
    /\ \A m \in (k + 1)..(k + n) : NonBlank(ls, m)
    /\ Closes(ls, k + n)
    /\ \A m \in (k + 1)..(k + n - 1) : ~Closes(ls, m)

\* ls[k] opens a parenthetical that one of the 3 lines after it closes.
ClosedCase(ls, k) ==
    /\ StartsWith(LineAt(ls, k), <<"(">>)
    /\ ~EndsWith(LineAt(ls, k), <<")">>)
    /\ \E n \in 1..3 : ClosesAt(ls, k, n)

CloseCount(ls, k) == CHOOSE n \in 1..3 : ClosesAt(ls, k, n)

\* ls[a] and the lines after it up to ls[b], trimmed, joined by single spaces.
RECURSIVE JoinLines(_, _, _)
JoinLines(ls, a, b) ==
    IF b <= a THEN LineAt(ls, a)
    ELSE JoinLines(ls, a, b - 1) \o <<" ">> \o Trim(LineAt(ls, b))

\* The text of the span without its outer parentheses.
SpanText(ls, k) == Trim(SliceInner(Trim(JoinLines(ls, k, k + CloseCount(ls, k)))))

\* The Tokenizer is at the line of the cursor, and the step deals with it.
LineStep ==
    /\ pc \in {"tokenize", "strip", "scan"}
    /\ i < Len(lines)
    /\ (i' # i \/ tokens' # tokens \/ errors' # errors)

\* C16: when the previous-token kind is character or dialogue and the line
\* opens a parenthetical that one of the next 3 non-blank lines closes, the
\* Tokenizer emits one Parenthetical token for the whole span, with the
\* lines joined by single spaces and the outer parentheses removed, records
\* no error and goes on at the line after the closing line.
C16_ClosedParenthetical ==
    [][(/\ LineStep
        /\ prevTokenType \in {"character", "dialogue"}
        /\ ClosedCase(lines, i)) =>
          /\ tokens' = Append(tokens, Token("parenthetical", SpanText(lines, i)))
          /\ errors' = errors
          /\ i' = i + CloseCount(lines, i) + 1]_vars

\* The number of lines after ls[k] that a look-ahead which does not close
\* accumulates: the non-blank lines up to the first blank one, 3 at most.
AccCount(ls, k) ==
    CHOOSE n \in 0..3 :
        /\ \A m \in (k + 1)..(k + n) : NonBlank(ls, m)
        /\ (n = 3 \/ ~NonBlank(ls, k + n + 1))

\* The text such a look-ahead accumulates.
AccBuffer(ls, k) == JoinLines(ls, k, k + AccCount(ls, k))

\* The step ends a look-ahead that found no closing ")".
ScanFails ==
    /\ pc = "scan"
    /\ pc' = "tokenize"
    /\ ~\E n \in 1..3 : ClosesAt(lines, i, n)

\* C17: the error list holds only UnclosedParenthetical entries, in input
\* order, one for each look-ahead that ended without a closing ")": the
\* entry's line is the 0-based index of the opening line, its context is the
\* accumulated text, and together with it exactly one Parenthetical token
\* with that text trimmed (its "(" kept) is emitted.
C17_ErrorsPaired ==
    /\ [](\A e \in 1..Len(errors) :
              /\ errors[e].type = "UnclosedParenthetical"
              /\ e > 1 => errors[e - 1].line < errors[e].line)
    /\ [][errors' # errors => ScanFails]_vars
    /\ [][ScanFails =>
              /\ Len(errors') = Len(errors) + 1
              /\ SubSeq(errors', 1, Len(errors)) = errors
              /\ errors'[Len(errors')].type = "UnclosedParenthetical"
              /\ errors'[Len(errors')].line = i
              /\ errors'[Len(errors')].context = AccBuffer(lines, i)
              /\ tokens' = Append(tokens,
                              Token("parenthetical", Trim(AccBuffer(lines, i))))]_vars

\* C17 witness: two entries for two opening lines one after the other, each
\* with its own degraded token.
C17_Witness ==
    /\ pc = "done"
    /\ Len(errors) = 2
    /\ errors[2].line = errors[1].line + 1
    /\ \A e \in 1..2 :
          \E t \in 1..Len(tokens) :
              tokens[t] = Token("parenthetical", Trim(errors[e].context))

\* ls[m] is one of the lines that a look-ahead recorded in the error list
\* accumulated.
Accumulated(m) ==
    \E e \in 1..Len(errors) :
        errors[e].line < m /\ m <= errors[e].line + AccCount(lines, errors[e].line)

\* After a look-ahead that does not close, the cursor and the
\* previous-token kind are as before it: the main loop goes on at the line
\* after the opening line, with the kind still character or dialogue.
UnclosedLeavesState ==
    ScanFails =>
        /\ i' = i + 1
        /\ prevTokenType' = prevTokenType
        /\ prevTokenType \in {"character", "dialogue"}

\* C18 as stated: a look-ahead that does not close leaves the cursor and the
\* previous-token kind unchanged, and every line it accumulated is afterwards
\* classified again on its own and emits its own token.
C18_RescanAfterUnclosed ==
    /\ [][UnclosedLeavesState]_vars
    /\ [][i' # i =>
              \A m \in i..(i' - 1) :
                  Accumulated(m) =>
                      (m = i /\ i' = i + 1 /\ Len(tokens') = Len(tokens) + 1)]_vars

\* C18 amended: a look-ahead that does not close leaves the cursor and the
\* previous-token kind unchanged, and every line it accumulated is afterwards
\* either classified again on its own, emitting its own token unless it is
\* a credit line, or consumed by a later multi-line parenthetical that
\* closes and emits one Parenthetical token for its span.
C18_RescanAfterUnclosedAmended ==
    /\ [][UnclosedLeavesState]_vars
    /\ [][i' # i =>
              \A m \in i..(i' - 1) :
                  Accumulated(m) =>
                      IF i' = i + 1
                      THEN \/ Len(tokens') = Len(tokens) + 1
                           \/ HasMetadataKey(line) /\ tokens' = tokens
                      ELSE /\ ClosedCase(lines, i)
                           /\ i' = i + CloseCount(lines, i) + 1
                           /\ tokens' = Append(tokens,
                                  Token("parenthetical", SpanText(lines, i)))]_vars

\* C18 witness: one look-ahead failed, its first line was classified again
\* as Dialogue, and a later line it had accumulated is part of a
\* parenthetical that closed.
C18_Witness ==
    /\ pc = "done"
    /\ Len(errors) = 1
    /\ \E t \in 1..Len(tokens) :
          /\ tokens[t] = Token("parenthetical", Trim(errors[1].context))
          /\ t + 2 <= Len(tokens)
          /\ tokens[t + 1].type = "dialogue"
          /\ tokens[t + 2].type = "parenthetical"

\* ls[k] opens a parenthetical on a single line: it starts with "(", does
\* not end with ")", and the next line is absent or blank.
FallbackCase(ls, k) ==
    /\ StartsWith(LineAt(ls, k), <<"(">>)
    /\ ~EndsWith(LineAt(ls, k), <<")">>)
    /\ IsEmptyCtx(ls, k + 1)

\* C19: when the previous-token kind is character or dialogue and the line
\* starts with "(", does not end with ")" and has an absent or blank next
\* line, the Tokenizer emits exactly one Dialogue token whose text is the
\* line after its "(", trimmed, and no Parenthetical token, leaves the error
\* list as it is and sets the previous-token kind to dialogue.
C19_UnterminatedFallback ==
    [][(/\ LineStep
        /\ prevTokenType \in {"character", "dialogue"}
        /\ FallbackCase(lines, i)) =>
          /\ tokens' = Append(tokens, Token("dialogue", Trim(SliceFrom1(line))))
          /\ errors' = errors
          /\ prevTokenType' = "dialogue"
          /\ i' = i + 1]_vars

\* C20: a line whose trimmed text starts with "!", with ">" without the
\* centered shape, or with "." gives a token whose text is the trimmed line
\* without that one leading sigil, trimmed again, also when white space
\* comes before the sigil.
C20_SigilStripped ==
    [][(/\ pc = "tokenize"
        /\ i' # i
        /\ SigilKind(line) \in {"action", "transition", "scene"}) =>
          /\ Len(tokens') = Len(tokens) + 1
          /\ tokens'[Len(tokens')].value = Trim(SliceFrom1(Trim(line)))]_vars

====
